---------------------------- MODULE Spec2Model ----------------------------
(***************************************************************************)
(* A model of the literature-notes generator plugin (the second, current   *)
(* copy of the plugin in src/unnamed/part_000, lines 250-558).             *)
(*                                                                         *)
(* Text is a sequence of tokens.  A token is a string that stands for one  *)
(* character (".", ",", " ", "(", "[", ...) or for an atomic run of        *)
(* characters that the program's regular expressions never split ("[1]" a  *)
(* citation marker \[\d+\], "2020" a four-digit year, "[J]" a type tag,    *)
(* "w" and "v" two different words).  Names that are Chinese in the source *)
(* are written in pinyin: "KaPianHuiZong" is the card-summary folder,      *)
(* "HuiZong.md" the suffix of a summary note.                              *)
(***************************************************************************)
EXTENDS Naturals, Sequences, FiniteSets, TLC

(***************************************************************************)
(* Bounds of the model.                                                    *)
(***************************************************************************)
MaxLines == 2
MaxTopics == 2
MaxChanges == 1

(***************************************************************************)
(* Tokens.                                                                 *)
(***************************************************************************)
NL == "\n"
Markers == {"[1]"}
Years == {"2020"}
Tags == {"[J]", "[C]", "[M]", "[D]"}
Whitespace == {" ", NL}
LineTerminators == {NL}
\* the tokens that are one character long
Chars == {"w", "v", ".", ",", ":", " ", "/", "(", ")", "[", "]", "|"}
\* the folder names the user may type into the modal
RootNames == {"doc", "S"}
Tokens ==
    Chars \cup Markers \cup Years \cup Tags \cup RootNames
    \cup {NL, "DOI", "Overview"}

(***************************************************************************)
(* Regular expressions: a pattern is a sequence of elements                *)
(*   set     one token of s                                                *)
(*   lazy    s*? (as few tokens of s as the rest of the pattern allows)    *)
(*   greedy  s*  (as many as the rest allows)                              *)
(*   open, close   the parentheses of a capture group                      *)
(*   end     $                                                             *)
(*   alt     (?:a[1]|a[2])                                                 *)
(* matched by backtracking, as the JavaScript engine does.                 *)
(***************************************************************************)
Lit(t) == [k |-> "set", s |-> {t}, a |-> <<>>]
Cls(S) == [k |-> "set", s |-> S, a |-> <<>>]
Dot == Tokens \ LineTerminators
Lazy(S) == [k |-> "lazy", s |-> S, a |-> <<>>]
Greedy(S) == [k |-> "greedy", s |-> S, a |-> <<>>]
Open == [k |-> "open", s |-> {}, a |-> <<>>]
Close == [k |-> "close", s |-> {}, a |-> <<>>]
End == [k |-> "end", s |-> {}, a |-> <<>>]
Alt(p, q) == [k |-> "alt", s |-> {}, a |-> <<p, q>>]
\* (.*?)
Group == <<Open, Lazy(Dot), Close>>

NoMatch == [ok |-> FALSE, caps |-> <<>>, start |-> 0, end |-> 0]

RECURSIVE MatchHere(_, _, _, _)
RECURSIVE LazyStar(_, _, _, _, _)
RECURSIVE GreedyStar(_, _, _, _, _, _)
RECURSIVE RunLength(_, _, _)

\* the number of consecutive tokens of S in str from position i on
RunLength(S, str, i) ==
    IF i <= Len(str) /\ str[i] \in S THEN 1 + RunLength(S, str, i + 1) ELSE 0

\* pat matched against str from position i on; caps: the group bounds so far
MatchHere(pat, str, i, caps) ==
    IF pat = <<>> THEN [ok |-> TRUE, caps |-> caps, start |-> 0, end |-> i]
    ELSE LET e == Head(pat)
             rest == Tail(pat)
         IN CASE e.k = "set" ->
                   IF i <= Len(str) /\ str[i] \in e.s
                   THEN MatchHere(rest, str, i + 1, caps)
                   ELSE NoMatch
              [] e.k \in {"open", "close"} ->
                   MatchHere(rest, str, i, Append(caps, i))
              [] e.k = "end" ->
                   IF i = Len(str) + 1 THEN MatchHere(rest, str, i, caps)
                   ELSE NoMatch
              [] e.k = "lazy" -> LazyStar(e.s, rest, str, i, caps)
              [] e.k = "greedy" ->
                   GreedyStar(rest, str, i, RunLength(e.s, str, i), caps, 0)
              [] e.k = "alt" ->
                   LET first == MatchHere(e.a[1] \o rest, str, i, caps)
                   IN IF first.ok THEN first
                      ELSE MatchHere(e.a[2] \o rest, str, i, caps)

\* S*? followed by rest: the shortest run first
LazyStar(S, rest, str, i, caps) ==
    LET now == MatchHere(rest, str, i, caps)
    IN IF now.ok THEN now
       ELSE IF i <= Len(str) /\ str[i] \in S
            THEN LazyStar(S, rest, str, i + 1, caps)
            ELSE NoMatch

\* S* followed by rest: the longest run (n tokens) first; the last
\* parameter is unused and keeps the two stars apart in arity
GreedyStar(rest, str, i, n, caps, unused) ==
    LET now == MatchHere(rest, str, i + n, caps)
    IN IF now.ok THEN now
       ELSE IF n > 0 THEN GreedyStar(rest, str, i, n - 1, caps, unused)
            ELSE NoMatch

RECURSIVE SearchFrom(_, _, _)
SearchFrom(pat, str, s) ==
    IF s > Len(str) + 1 THEN NoMatch
    ELSE LET m == MatchHere(pat, str, s, <<>>)
         IN IF m.ok THEN [m EXCEPT !.start = s]
            ELSE SearchFrom(pat, str, s + 1)

\* str.match(pat), pat without the g flag: the leftmost match
Search(pat, str) == SearchFrom(pat, str, 1)

\* capture group n of a match m of str
Captured(str, m, n) == SubSeq(str, m.caps[2 * n - 1], m.caps[2 * n] - 1)

(***************************************************************************)
(* String helpers.                                                         *)
(***************************************************************************)
RECURSIVE trim(_)
\* String.prototype.trim
trim(s) ==
    IF s = <<>> THEN s
    ELSE IF Head(s) \in Whitespace THEN trim(Tail(s))
    ELSE IF s[Len(s)] \in Whitespace THEN trim(SubSeq(s, 1, Len(s) - 1))
    ELSE s

RECURSIVE split(_, _)
\* content.split('\n'): never empty, the empty text gives one empty line
split(s, cur) ==
    IF s = <<>> THEN <<cur>>
    ELSE IF Head(s) = NL THEN <<cur>> \o split(Tail(s), <<>>)
    ELSE split(Tail(s), Append(cur, Head(s)))

(***************************************************************************)
(* parseLiteratures.                                                       *)
(***************************************************************************)
\* Object.entries(patterns): the keys in insertion order
PatternOrder == <<"J", "C", "M", "D">>

\* the four regular expressions of parseLiteratures
patterns(type) ==
    CASE type = "J" ->
           \* /\[\d+\](.*?)\.(.*?)\[J\]\.(.*?),(\d{4}),.*?(?:\.DOI:|$)/
           <<Cls(Markers)>> \o Group \o <<Lit(".")>> \o Group
           \o <<Lit("[J]"), Lit(".")>> \o Group
           \o <<Lit(","), Open, Cls(Years), Close, Lit(","), Lazy(Dot),
                Alt(<<Lit("."), Lit("DOI"), Lit(":")>>, <<End>>)>>
      [] type = "C" ->
           \* /\[\d+\](.*?)\. (.*?) \[C\]\/\/.*?\. (.*?), (\d{4})/
           <<Cls(Markers)>> \o Group \o <<Lit("."), Lit(" ")>> \o Group
           \o <<Lit(" "), Lit("[C]"), Lit("/"), Lit("/"), Lazy(Dot),
                Lit("."), Lit(" ")>> \o Group
           \o <<Lit(","), Lit(" "), Open, Cls(Years), Close>>
      [] type = "M" ->
           \* /\[\d+\](.*?)\. (.*?) \[M\]\. (.*?): .*?, (\d{4})/
           <<Cls(Markers)>> \o Group \o <<Lit("."), Lit(" ")>> \o Group
           \o <<Lit(" "), Lit("[M]"), Lit("."), Lit(" ")>> \o Group
           \o <<Lit(":"), Lit(" "), Lazy(Dot), Lit(","), Lit(" "),
                Open, Cls(Years), Close>>
      [] type = "D" ->
           \* /\[\d+\](.*?)\. (.*?) \[D\]\. (.*?), (\d{4})/
           <<Cls(Markers)>> \o Group \o <<Lit("."), Lit(" ")>> \o Group
           \o <<Lit(" "), Lit("[D]"), Lit("."), Lit(" ")>> \o Group
           \o <<Lit(","), Lit(" "), Open, Cls(Years), Close>>

\* the entry pushed for a match: const [, authors, title, journal, date]
Entry(line, m, type) ==
    [title |-> trim(Captured(line, m, 2)),
     authors |-> trim(Captured(line, m, 1)),
     journal |-> trim(Captured(line, m, 3)),
     publicationDate |-> trim(Captured(line, m, 4)),
     type |-> type]

RECURSIVE parseLineAll(_, _)
\* parseLine without the break: one entry per pattern that matches
parseLineAll(line, k) ==
    IF k > Len(PatternOrder) THEN <<>>
    ELSE LET m == Search(patterns(PatternOrder[k]), line)
         IN (IF m.ok THEN <<Entry(line, m, PatternOrder[k])>> ELSE <<>>)
            \o parseLineAll(line, k + 1)

RECURSIVE parseLine(_, _)
\* the inner loop over the patterns from the k-th on: the first match
\* pushes one entry and breaks
parseLine(line, k) ==
    IF k > Len(PatternOrder) THEN <<>>
    ELSE LET m == Search(patterns(PatternOrder[k]), line)
         IN IF m.ok THEN <<Entry(line, m, PatternOrder[k])>>
            ELSE parseLine(line, k + 1)

RECURSIVE parseLines(_)
parseLines(lines) ==
    IF lines = <<>> THEN <<>>
    ELSE parseLine(Head(lines), 1) \o parseLines(Tail(lines))

parseLiteratures(content) == parseLines(split(content, <<>>))

(***************************************************************************)
(* The rewritten document (generateNotes, the loop over the entries).      *)
(***************************************************************************)
\* `[${lit.type}]`
Tag(type) ==
    CASE type = "J" -> "[J]"
      [] type = "C" -> "[C]"
      [] type = "M" -> "[M]"
      [] type = "D" -> "[D]"

RECURSIVE Balanced(_, _)
\* the parentheses of a pattern source pair up (depth: the open ones)
Balanced(s, depth) ==
    IF s = <<>> THEN depth = 0
    ELSE IF Head(s) = "(" THEN Balanced(Tail(s), depth + 1)
    ELSE IF Head(s) = ")" THEN depth > 0 /\ Balanced(Tail(s), depth - 1)
    ELSE Balanced(Tail(s), depth)

\* what one token of a title means in the source of a RegExp: the title is
\* not escaped.  A tag or a marker is a character class of one letter or
\* digit, which no token of the alphabet is; "[" and "|" never occur in a
\* title (they occur in inserted links only) and have no case here.
RegExpAtom(t) ==
    CASE t = "." -> <<Cls(Chars \ LineTerminators)>>
      [] t \in {"(", ")"} -> <<>>
      [] t \in Tags \cup Markers -> <<Cls({})>>
      [] t \in {"w", "v", ",", ":", " ", "/", "]", "DOI", "Overview"}
              \cup Years \cup RootNames -> <<Lit(t)>>

RECURSIVE RegExpAtoms(_)
RegExpAtoms(s) ==
    IF s = <<>> THEN <<>> ELSE RegExpAtom(Head(s)) \o RegExpAtoms(Tail(s))

\* new RegExp(`${lit.title}\\s*\\[${lit.type}\\]`): ok is FALSE when the
\* constructor throws a SyntaxError
TitleRegExp(lit) ==
    IF Balanced(lit.title, 0)
    THEN [ok |-> TRUE,
          pat |-> RegExpAtoms(lit.title)
                  \o <<Greedy(Whitespace), Lit(Tag(lit.type))>>]
    ELSE [ok |-> FALSE, pat |-> <<>>]

\* `[[${folderName}/${lit.title}/Overview|${lit.title}]] [${lit.type}]`
LinkText(folderName, lit) ==
    <<"[", "[">> \o folderName \o <<"/">> \o lit.title
    \o <<"/", "Overview", "|">> \o lit.title \o <<"]", "]">>
    \o <<" ", Tag(lit.type)>>

\* text.replace(pat, by) for a pattern without the g flag
replace(text, pat, by) ==
    LET m == Search(pat, text)
    IN IF m.ok
       THEN SubSeq(text, 1, m.start - 1) \o by
            \o SubSeq(text, m.end, Len(text))
       ELSE text

RECURSIVE rewrite(_, _, _)
\* the loop "for (const lit of literatures) newContent = newContent.replace"
rewrite(text, lits, folderName) ==
    IF lits = <<>> THEN [ok |-> TRUE, text |-> text]
    ELSE LET re == TitleRegExp(Head(lits))
         IN IF re.ok
            THEN rewrite(replace(text, re.pat,
                                 LinkText(folderName, Head(lits))),
                         Tail(lits), folderName)
            ELSE [ok |-> FALSE, text |-> text]

(***************************************************************************)
(* Settings.  A topic (a card name) is a line of the settings text area, a *)
(* sequence of tokens.                                                     *)
(***************************************************************************)
DEFAULT_SETTINGS ==
    [readingCards |->
        << <<"ZhengCeBeiJing">>, <<"LiLunBeiJing">>, <<"LiLunYiYi">>,
           <<"XianShiYiYi">>, <<"TianBuKongBai">>, <<"LiLunJiChu">>,
           <<"LiLunKuangJia">>, <<"GuanJianZiBianLiang">>,
           <<"GuanJianYinBianLiang">>, <<"JiZhiBianLiang">>,
           <<"GongJuBianLiang">>, <<"TiaoJieBianLiang">>,
           <<"KongZhiBianLiang">>, <<"ShuJuLaiYuan">>, <<"FenXiFangFa">>,
           <<"YingXiangJiZhi">>, <<"JiZhiFenXi">>,
           <<"WenJianXingJianYan">> >>]

\* the stored plugin data: has is FALSE when nothing was ever saved
NoData == [has |-> FALSE, readingCards |-> <<>>]
Stored(cards) == [has |-> TRUE, readingCards |-> cards]

\* Object.assign({}, DEFAULT_SETTINGS, await this.loadData())
loadSettings(stored) ==
    IF stored.has THEN [readingCards |-> stored.readingCards]
    ELSE DEFAULT_SETTINGS

RECURSIVE filterLines(_)
\* lines.filter(line => line.trim()): the kept lines are not trimmed
filterLines(lines) ==
    IF lines = <<>> THEN <<>>
    ELSE IF trim(Head(lines)) # <<>>
         THEN <<Head(lines)>> \o filterLines(Tail(lines))
         ELSE filterLines(Tail(lines))

(***************************************************************************)
(* The state.                                                              *)
(***************************************************************************)
Runs == {"r1", "r2"}

VARIABLES
    files,       \* the vault's files: path -> content
    folders,     \* the vault's folders: a set of paths
    activeFile,  \* workspace.getActiveFile(): a path, or NoFile
    data,        \* the stored plugin data
    settings,    \* this.settings
    run,         \* per invocation of generateNotes: its locals and position
    log,         \* per invocation: the createFolder and create calls it made
    changes      \* the number of edits of the settings text area

vars == <<files, folders, activeFile, data, settings, run, log, changes>>

NoFile == <<>>
NoLit == [title |-> <<>>, authors |-> <<>>, journal |-> <<>>,
          publicationDate |-> <<>>, type |-> ""]

\* a path is a string: `${folder.path}/${name}`
Join(folder, name) == folder \o <<"/">> \o name

RECURSIVE LastSlash(_, _)
LastSlash(path, i) ==
    IF i = 0 THEN 0 ELSE IF path[i] = "/" THEN i ELSE LastSlash(path, i - 1)

\* TFile.basename: the file's name without its extension
basename(path) ==
    SubSeq(path, LastSlash(path, Len(path)) + 1, Len(path) - 1)

\* vault.adapter.exists(path)
exists(path) == path \in folders \/ path \in DOMAIN files

(***************************************************************************)
(* The contents of the generated notes: the fields the templates insert.   *)
(***************************************************************************)
Note(type, lit, cardType, nav, from, text) ==
    [type |-> type, lit |-> lit, cardType |-> cardType, nav |-> nav,
     from |-> from, text |-> text]

\* the front matter, the heading, and one "- [[card]]" line per card of
\* this.settings.readingCards
generateOverviewContent(lit) ==
    Note("overview", lit, <<>>, settings.readingCards, <<>>, <<>>)

generateCardContent(cardName, lit) ==
    Note("reading-card", lit, cardName, <<>>, <<>>, <<>>)

generateSummaryContent(cardType, mainFolderName) ==
    Note("summary", NoLit, cardType, <<>>, mainFolderName, <<>>)

Document(text) == Note("document", NoLit, <<>>, <<>>, <<>>, text)

(***************************************************************************)
(* One invocation: pc is where the awaited chain is suspended.             *)
(*   idle      generateNotes not called yet                                *)
(*   returned  generateNotes returned, there being no active file          *)
(*   modal     the folder-name modal is open                               *)
(*   read      await vault.read                                            *)
(*   exists    await vault.adapter.exists(path)                            *)
(*   mkdir     await vault.createFolder(path)                              *)
(*   create    await vault.create(path, pending)                           *)
(*   done, failed   the callback returned, or threw                        *)
(* phase is the call the chain is in.                                      *)
(***************************************************************************)
IdleRun ==
    [pc |-> "idle", phase |-> "", activeFile |-> NoFile, folderName |-> <<>>,
     content |-> <<>>, literatures |-> <<>>, notice |-> FALSE,
     mainFolder |-> <<>>, summaryFolder |-> <<>>, litFolder |-> <<>>,
     cardsFolder |-> <<>>, i |-> 0, cards |-> <<>>, k |-> 0,
     path |-> <<>>, pending |-> Document(<<>>), newContent |-> <<>>,
     error |-> ""]

InProgress(r) == run[r].pc \in {"read", "exists", "mkdir", "create"}

Throw(st, error) == [st EXCEPT !.pc = "failed", !.error = error]

\* the call createFolderIfNotExists(path): up to its await of exists(path)
Ensure(st, phase, path) ==
    [st EXCEPT !.pc = "exists", !.phase = phase, !.path = path]

\* the call vault.create(path, content)
Create(st, phase, path, content) ==
    [st EXCEPT !.pc = "create", !.phase = phase, !.path = path,
               !.pending = content]

\* the copy of the document: its path in the main folder
CopyPath(st) ==
    Join(st.mainFolder, basename(st.activeFile) \o <<".md">>)

\* generateNotes from the rewriting of the document on
StartCopy(st) ==
    LET res == rewrite(st.content, st.literatures, st.folderName)
    IN IF res.ok
       THEN Create([st EXCEPT !.newContent = res.text], "copy", CopyPath(st),
                   Document(res.text))
       ELSE Throw([st EXCEPT !.phase = "rewrite"], "SyntaxError")

\* generateSummaryNotes: the loop over st.cards from the k-th card on
NextSummary(st, k) ==
    IF k <= Len(st.cards)
    THEN Create([st EXCEPT !.k = k], "summary",
                Join(st.summaryFolder, st.cards[k] \o <<"HuiZong", ".md">>),
                generateSummaryContent(st.cards[k], st.folderName))
    ELSE StartCopy(st)

\* generateSummaryNotes(summaryFolder, folderName): for (const cardType of
\* this.settings.readingCards) iterates the array that is the setting now
generateSummaryNotes(st) ==
    NextSummary([st EXCEPT !.cards = settings.readingCards], 1)

\* generateNotes: the loop over the entries from the i-th on
NextLiterature(st, i) ==
    IF i <= Len(st.literatures)
    THEN Ensure([st EXCEPT !.i = i], "litFolder",
                Join(st.mainFolder, st.literatures[i].title))
    ELSE generateSummaryNotes(st)

\* NextCard leaving the last card out
NextCardShort(st, k) ==
    IF k < Len(st.cards)
    THEN Create([st EXCEPT !.k = k], "card",
                Join(st.cardsFolder, st.cards[k] \o <<".md">>),
                generateCardContent(st.cards[k], st.literatures[st.i]))
    ELSE NextLiterature(st, st.i + 1)

\* NextCard going through the cards from the last to the first
NextCardReversed(st, k) ==
    IF k <= Len(st.cards)
    THEN LET card == st.cards[Len(st.cards) + 1 - k]
         IN Create([st EXCEPT !.k = k], "card",
                   Join(st.cardsFolder, card \o <<".md">>),
                   generateCardContent(card, st.literatures[st.i]))
    ELSE NextLiterature(st, st.i + 1)

\* createLiteratureStructure: the loop over st.cards from the k-th on
NextCard(st, k) ==
    IF k <= Len(st.cards)
    THEN Create([st EXCEPT !.k = k], "card",
                Join(st.cardsFolder, st.cards[k] \o <<".md">>),
                generateCardContent(st.cards[k], st.literatures[st.i]))
    ELSE NextLiterature(st, st.i + 1)

\* what follows createFolderIfNotExists(st.path), which returns the folder
\* at st.path, up to the next await
AfterFolder(st) ==
    CASE st.phase = "root" ->
           Ensure([st EXCEPT !.mainFolder = st.path], "summaryFolder",
                  Join(st.path, <<"KaPianHuiZong">>))
      [] st.phase = "summaryFolder" ->
           NextLiterature([st EXCEPT !.summaryFolder = st.path], 1)
      [] st.phase = "litFolder" ->
           Create([st EXCEPT !.litFolder = st.path], "overview",
                  Join(st.path, <<"Overview", ".md">>),
                  generateOverviewContent(st.literatures[st.i]))
      [] st.phase = "cardsFolder" ->
           NextCard([st EXCEPT !.cardsFolder = st.path,
                               !.cards = settings.readingCards], 1)

\* what follows a vault.create that did not throw, up to the next await
AfterCreate(st) ==
    CASE st.phase = "overview" ->
           Ensure(st, "cardsFolder", Join(st.litFolder, <<"Reading Cards">>))
      [] st.phase = "card" -> NextCard(st, st.k + 1)
      [] st.phase = "summary" -> NextSummary(st, st.k + 1)
      [] st.phase = "copy" -> [st EXCEPT !.pc = "done"]

\* a call of vault.createFolder or vault.create, as the log keeps it
Call(op, st, ok) ==
    [op |-> op, phase |-> st.phase, i |-> st.i, k |-> st.k,
     path |-> st.path, ok |-> ok]

(***************************************************************************)
(* The actions.                                                            *)
(***************************************************************************)
\* the ribbon icon or the command: generateNotes up to opening the modal
GenerateNotes(r) ==
    /\ run[r].pc = "idle"
    /\ run' = [run EXCEPT ![r] =
                 IF activeFile = NoFile THEN [@ EXCEPT !.pc = "returned"]
                 ELSE [@ EXCEPT !.pc = "modal", !.activeFile = activeFile]]
    /\ UNCHANGED <<files, folders, activeFile, data, settings, log, changes>>

\* the modal's button: onSubmit(inputEl.value) runs the callback up to its
\* await of vault.read, then the modal closes
Submit(r, folderName) ==
    /\ run[r].pc = "modal"
    /\ run' = [run EXCEPT ![r] =
                 [@ EXCEPT !.pc = "read", !.folderName = <<folderName>>]]
    /\ UNCHANGED <<files, folders, activeFile, data, settings, log, changes>>

\* vault.read resolves: parseLiteratures, then createFolderIfNotExists of
\* the main folder up to its await
ReadDone(r) ==
    /\ run[r].pc = "read"
    /\ LET content == files[run[r].activeFile].text
           literatures == parseLiteratures(content)
       IN run' = [run EXCEPT ![r] =
                    Ensure([@ EXCEPT !.content = content,
                                     !.literatures = literatures,
                                     !.notice = (Len(literatures) = 0)],
                           "root", @.folderName)]
    /\ UNCHANGED <<files, folders, activeFile, data, settings, log, changes>>

\* createFolderIfNotExists without its test
MustCreateAlways(path) == TRUE

\* createFolderIfNotExists: the test of what exists(path) resolved to
MustCreate(path) == ~exists(path)

\* createFolderIfNotExists: exists(path) resolves
FolderExists(r) ==
    /\ run[r].pc = "exists"
    /\ run' = [run EXCEPT ![r] =
                 IF MustCreate(@.path) THEN [@ EXCEPT !.pc = "mkdir"]
                 ELSE AfterFolder(@)]
    /\ UNCHANGED <<files, folders, activeFile, data, settings, log, changes>>

\* createFolderIfNotExists: vault.createFolder(path) creates the folder, or
\* throws when the path exists
CreateFolder(r) ==
    /\ run[r].pc = "mkdir"
    /\ LET st == run[r]
           ok == ~exists(st.path)
       IN /\ folders' = IF ok THEN folders \cup {st.path} ELSE folders
          /\ run' = [run EXCEPT ![r] =
                       IF ok THEN AfterFolder(st)
                       ELSE Throw(st, "Folder already exists.")]
          /\ log' = [log EXCEPT ![r] = Append(@, Call("createFolder", st, ok))]
    /\ UNCHANGED <<files, activeFile, data, settings, changes>>

\* vault.create(path, content): the files after it, ok FALSE when it throws
\* because the path exists
vaultCreate(path, content) ==
    IF exists(path) THEN [ok |-> FALSE, files |-> files]
    ELSE [ok |-> TRUE, files |-> (path :> content) @@ files]

\* the first copy of generateNotes (lines 123-134): the rewritten text
\* written over the active file, vault.modify(activeFile, newContent)
writeCopyModify(st) ==
    [ok |-> TRUE, files |-> [files EXCEPT ![st.activeFile] = st.pending]]

\* the write of the rewritten document
writeCopy(st) == vaultCreate(st.path, st.pending)

\* a pending vault.create settles: written is what became of the files
Settle(r, written) ==
    LET st == run[r]
    IN /\ files' = written.files
       /\ run' = [run EXCEPT ![r] =
                    IF written.ok THEN AfterCreate(st)
                    ELSE Throw(st, "File already exists.")]
       /\ log' = [log EXCEPT ![r] = Append(@, Call("create", st, written.ok))]
       /\ UNCHANGED <<folders, activeFile, data, settings, changes>>

createOverviewNote(r) ==
    /\ run[r].pc = "create" /\ run[r].phase = "overview"
    /\ Settle(r, vaultCreate(run[r].path, run[r].pending))

createCard(r) ==
    /\ run[r].pc = "create" /\ run[r].phase = "card"
    /\ Settle(r, vaultCreate(run[r].path, run[r].pending))

createSummaryNote(r) ==
    /\ run[r].pc = "create" /\ run[r].phase = "summary"
    /\ Settle(r, vaultCreate(run[r].path, run[r].pending))

createCopy(r) ==
    /\ run[r].pc = "create" /\ run[r].phase = "copy"
    /\ Settle(r, writeCopy(run[r]))

\* the settings tab's onChange(value), saveSettings included
ChangeSettings(value) ==
    /\ changes < MaxChanges
    /\ LET cards == filterLines(split(value, <<>>))
       IN /\ settings' = [settings EXCEPT !.readingCards = cards]
          /\ data' = Stored(cards)
    /\ changes' = changes + 1
    /\ UNCHANGED <<files, folders, activeFile, run, log>>

Step(r) ==
    \/ \E folderName \in RootNames : Submit(r, folderName)
    \/ ReadDone(r)
    \/ FolderExists(r)
    \/ CreateFolder(r)
    \/ createOverviewNote(r)
    \/ createCard(r)
    \/ createSummaryNote(r)
    \/ createCopy(r)

(***************************************************************************)
(* The inputs.                                                             *)
(***************************************************************************)
\* lines of a document
LineJ == <<"[1]", "w", ".", "w", "[J]", ".", "w", ",", "2020", ",", "w">>
LineJs == <<"[1]", "w", ".", "v", " ", "[J]", ".", "w", ",", "2020", ",",
            "w", ".", "DOI", ":", "w">>
LineC == <<"[1]", "w", ".", " ", "w", " ", "[C]", "/", "/", "w", ".", " ",
           "w", ",", " ", "2020">>
LineM == <<"[1]", "w", ".", " ", "v", " ", "[M]", ".", " ", "w", ":", " ",
           "w", ",", " ", "2020">>
LineD == <<"[1]", "w", ".", " ", "v", " ", "[D]", ".", " ", "w", ",", " ",
           "2020">>
\* matches the J and the D pattern
LineJD == <<"[1]", "w", ".", " ", "w", " ", "[D]", ".", " ", "w", ",", " ",
            "2020", "[J]", ".", "w", ",", "2020", ",">>
\* matches the M and the D pattern
LineMD == <<"[1]", "w", ".", " ", "v", " ", "[M]", ".", " ", "w", ":", " ",
            "w", " ", "[D]", ".", " ", "w", ",", " ", "2020">>
\* no entry: no citation marker
LineNone == <<"w", "v", " ", "[J]">>
\* titles with characters that mean something in a regular expression
LineParen == <<"[1]", "w", ".", "w", "(", "[J]", ".", "w", ",", "2020", ",">>
LineGroup == <<"[1]", "w", ".", "(", "v", ")", "[J]", ".", "w", ",", "2020",
               ",">>
LineDot == <<"[1]", "w", ".", "w", ".", "[J]", ".", "w", ",", "2020", ",">>

RECURSIVE JoinLines(_)
JoinLines(lines) ==
    IF lines = <<>> THEN <<>>
    ELSE IF Len(lines) = 1 THEN lines[1]
    ELSE lines[1] \o <<NL>> \o JoinLines(Tail(lines))

SeqsUpTo(S, n) == UNION {[1..m -> S] : m \in 0..n}

\* the documents of at most MaxLines lines of S
DocsOf(S) == {JoinLines(ls) : ls \in SeqsUpTo(S, MaxLines)}

TopicLines == {<<"A">>, <<"B">>}
TopicLists == SeqsUpTo(TopicLines, MaxTopics)

\* where the document is: at the vault's root, or in a folder named as it
DocPaths == {<<"doc", ".md">>, <<"doc", "/", "doc", ".md">>}

InitWith(contents, stored, paths, actives) ==
    /\ \E content \in contents, path \in paths :
         /\ files = (path :> Document(content))
         /\ folders = IF LastSlash(path, Len(path)) = 0 THEN {}
                      ELSE {SubSeq(path, 1, LastSlash(path, Len(path)) - 1)}
         /\ activeFile \in {path} \cup actives
    /\ data \in stored
    /\ settings = loadSettings(data)
    /\ run = [r \in Runs |-> IdleRun]
    /\ log = [r \in Runs |-> <<>>]
    /\ changes = 0

(***************************************************************************)
(* Spec: two invocations and the settings tab, interleaved at every await. *)
(***************************************************************************)
ConcDocs == {LineJ, JoinLines(<<LineJ, LineD>>)}
ConcStored == {Stored(<<<<"A">>>>), Stored(<<<<"A">>, <<"B">>>>)}
ConcValues == {<<"B">>, <<"A", NL, NL, "B">>, <<" ">>}

Init == InitWith(ConcDocs, ConcStored, DocPaths, {NoFile})

Next ==
    \/ \E r \in Runs : GenerateNotes(r) \/ Step(r)
    \/ \E value \in ConcValues : ChangeSettings(value)

Spec == Init /\ [][Next]_vars

(***************************************************************************)
(* SpecSeq: the invocations one after the other, the settings left alone.  *)
(***************************************************************************)
SeqLines == {LineJ, LineC, LineD, LineNone}
SeqStored == {NoData} \cup {Stored(cards) : cards \in TopicLists}

\* r is the next invocation: the ones before it are over
Sequential(r) ==
    /\ \A q \in Runs \ {r} : ~InProgress(q) /\ run[q].pc # "modal"
    /\ r = "r2" => run["r1"].pc # "idle"

SeqInit == InitWith(DocsOf(SeqLines), SeqStored, DocPaths, {})

SeqNext == \E r \in Runs : (GenerateNotes(r) /\ Sequential(r)) \/ Step(r)

SpecSeq == SeqInit /\ [][SeqNext]_vars

(***************************************************************************)
(* SpecParse: one invocation, over every document of the lines below.      *)
(***************************************************************************)
ParseLines ==
    {LineJ, LineJs, LineC, LineM, LineD, LineJD, LineMD, LineNone,
     LineParen, LineGroup, LineDot}

ParseInit ==
    InitWith(DocsOf(ParseLines), {Stored(<<<<"A">>>>)}, {<<"doc", ".md">>}, {})

ParseNext == GenerateNotes("r1") \/ Step("r1")

SpecParse == ParseInit /\ [][ParseNext]_vars
(***************************************************************************)
(* The claims.                                                             *)
(***************************************************************************)
Calls(r) == {log[r][j] : j \in 1..Len(log[r])}
Started(r) == run[r].pc \in {"exists", "mkdir", "create", "done", "failed"}
FolderPhases == {"root", "summaryFolder", "litFolder", "cardsFolder"}
EntryPhases == {"litFolder", "overview", "cardsFolder", "card"}

\* C1: when the invocations follow one another, no call of createFolder is
\* made on a path that exists (the root folder, the summary folder, the
\* title folders, the Reading Cards folders): an existing folder is found
\* by the test and reused, and no run ends in a folder-exists error.
C1_FolderCreationIdempotent ==
    \A r \in Runs :
      /\ \A c \in Calls(r) : c.op = "createFolder" => c.ok
      /\ run[r].error # "Folder already exists."

\* the second run found the root folder, the summary folder and a title
\* folder of the first run's and went on without a createFolder
C1_SecondRunReusesFolders ==
    /\ run["r1"].pc = "done"
    /\ run["r2"].folderName = run["r1"].folderName
    /\ run["r2"].pc = "create" /\ run["r2"].phase = "overview"
    /\ run["r2"].litFolder \in folders
    /\ log["r2"] = <<>>

\* C2: every createFolder and every create of a run (Overview.md, the
\* cards, the summary notes, the copy) is made on a path that does not
\* exist, and no run ends in a path-exists error.
C2_NoCreateOnExistingPath ==
    \A r \in Runs :
      /\ \A c \in Calls(r) : c.ok
      /\ run[r].error \notin {"Folder already exists.", "File already exists."}

\* the files the layout names for root folder R, the entries lits, the
\* topics and the document's base name
ExpectedFiles(R, lits, topics, base) ==
    {Join(Join(R, lits[i].title), <<"Overview", ".md">>) : i \in DOMAIN lits}
    \cup {Join(Join(Join(R, lits[i].title), <<"Reading Cards">>),
               topics[k] \o <<".md">>) :
            i \in DOMAIN lits, k \in DOMAIN topics}
    \cup {Join(Join(R, <<"KaPianHuiZong">>), topics[k] \o <<"HuiZong", ".md">>) :
            k \in DOMAIN topics}
    \cup {Join(R, base \o <<".md">>)}

DistinctTitles(lits) ==
    \A i, j \in DOMAIN lits : i # j => lits[i].title # lits[j].title

Creates(r) == {c \in Calls(r) : c.op = "create" /\ c.ok}

\* C3: a run that completes has created exactly the files of the layout,
\* each by one call of create: Overview.md per entry, one card per entry
\* and topic, one summary note per topic, and the copy of the document.  On
\* a vault that held the document only, these and the document are then
\* all the files there are.
C3_FilesCreated ==
    \A r \in Runs :
      (run[r].pc = "done" /\ DistinctTitles(run[r].literatures)) =>
        LET st == run[r]
            expected == ExpectedFiles(st.folderName, st.literatures,
                                      settings.readingCards,
                                      basename(st.activeFile))
        IN /\ {c.path : c \in Creates(r)} = expected
           /\ Cardinality(Creates(r)) = Cardinality(expected)
           /\ \A c \in Calls(r) : c.op = "create" => c.ok
           /\ expected \subseteq DOMAIN files
           /\ (r = "r1" /\ log["r2"] = <<>> /\ LastSlash(st.activeFile, Len(st.activeFile)) = 0)
                => DOMAIN files = expected \cup {st.activeFile}

\* a run over two entries of different titles and two topics is complete
C3_CompleteRun ==
    /\ run["r1"].pc = "done"
    /\ Len(run["r1"].literatures) = 2
    /\ Len(settings.readingCards) = 2
    /\ LastSlash(run["r1"].activeFile, Len(run["r1"].activeFile)) = 0

Priority(type) ==
    CASE type = "J" -> 1 [] type = "C" -> 2 [] type = "M" -> 3 [] type = "D" -> 4
Types == {"J", "C", "M", "D"}
Matching(line) == {t \in Types : Search(patterns(t), line).ok}
FirstMatching(line) ==
    CHOOSE t \in Matching(line) :
      \A u \in Matching(line) : Priority(t) <= Priority(u)
\* the lines (by number) that match a pattern, and the n-th of them
MatchingLines(lines) == {n \in DOMAIN lines : Matching(lines[n]) # {}}
NthOf(S, n) == CHOOSE m \in S : Cardinality({l \in S : l < m}) = n - 1

\* C5: the entries parseLiteratures returns (the run is in its next call,
\* that of the root folder) are, in the order of the lines, one per line
\* that matches a pattern and none for the other lines; the entry of a line
\* has the type of the first pattern, in the order J, C, M, D, that
\* matches it, and that match's fields.
C5_OneEntryPerLine ==
    \A r \in Runs :
      run[r].phase = "root" =>
        LET lines == split(run[r].content, <<>>)
            lits == run[r].literatures
            from == MatchingLines(lines)
        IN /\ Len(lits) = Cardinality(from)
           /\ Len(lits) <= Len(lines)
           /\ \A n \in DOMAIN lits :
                LET line == lines[NthOf(from, n)]
                    type == FirstMatching(line)
                IN /\ lits[n].type = type
                   /\ lits[n] = Entry(line, Search(patterns(type), line), type)

\* a document was parsed one of whose lines matches two patterns and
\* another none
C5_AmbiguousLineParsed ==
    /\ run["r1"].phase = "root"
    /\ LET lines == split(run["r1"].content, <<>>)
       IN /\ \E n \in DOMAIN lines : Cardinality(Matching(lines[n])) = 2
          /\ \E n \in DOMAIN lines : Matching(lines[n]) = {}

RECURSIVE Literal(_)
\* the pattern that matches the tokens of s as they are
Literal(s) == IF s = <<>> THEN <<>> ELSE <<Lit(Head(s))>> \o Literal(Tail(s))

RECURSIVE LiteralRewrite(_, _, _)
\* the entries in order, each replacing the first place where its title, as
\* it is written, is followed by white space and its tag
LiteralRewrite(text, lits, folderName) ==
    IF lits = <<>> THEN text
    ELSE LiteralRewrite(
           replace(text,
                   Literal(Head(lits).title)
                   \o <<Greedy(Whitespace), Lit(Tag(Head(lits).type))>>,
                   LinkText(folderName, Head(lits))),
           Tail(lits), folderName)

\* C6: the rewriting raises no error, and the rewritten text is the
\* document with, for each entry in order, the first place where the title
\* is followed by white space and the entry's tag replaced by the link and
\* the tag.
C6_RewriteFirstLiteralMatch ==
    \A r \in Runs :
      /\ run[r].error # "SyntaxError"
      /\ run[r].phase = "copy" =>
           run[r].newContent
             = LiteralRewrite(run[r].content, run[r].literatures,
                              run[r].folderName)

\* C7: a run that a failing createFolder or create of an entry's structure
\* ended has gone through the structure of every entry: the failure was in
\* the last entry.
C7_EntryFailureDoesNotAbort ==
    \A r \in Runs :
      (run[r].pc = "failed" /\ run[r].phase \in EntryPhases) =>
        run[r].i = Len(run[r].literatures)

\* the place of a call in the order of the claim: the root folder, the
\* summary folder, the entries in order (title folder, Overview.md, Reading
\* Cards, the cards in order), the summary notes in order, the copy
PhaseNo(phase) ==
    CASE phase = "root" -> 1
      [] phase = "summaryFolder" -> 2
      [] phase \in EntryPhases -> 3
      [] phase = "summary" -> 4
      [] phase = "copy" -> 5
StepNo(phase) ==
    CASE phase = "litFolder" -> 1
      [] phase = "overview" -> 2
      [] phase = "cardsFolder" -> 3
      [] phase = "card" -> 4
      [] OTHER -> 0
Place(c) ==
    <<PhaseNo(c.phase),
      IF c.phase \in EntryPhases THEN c.i ELSE 0,
      StepNo(c.phase),
      IF c.phase \in {"card", "summary"} THEN c.k ELSE 0>>
Earlier(a, b) ==
    \E n \in 1..4 : a[n] < b[n] /\ \A m \in 1..(n - 1) : a[m] = b[m]

\* the path the layout gives the call c of run r
PathOf(r, c) ==
    LET R == run[r].folderName
        T == Join(R, run[r].literatures[c.i].title)
        topic == settings.readingCards[c.k]
    IN CASE c.phase = "root" -> R
         [] c.phase = "summaryFolder" -> Join(R, <<"KaPianHuiZong">>)
         [] c.phase = "litFolder" -> T
         [] c.phase = "overview" -> Join(T, <<"Overview", ".md">>)
         [] c.phase = "cardsFolder" -> Join(T, <<"Reading Cards">>)
         [] c.phase = "card" ->
              Join(Join(T, <<"Reading Cards">>), topic \o <<".md">>)
         [] c.phase = "summary" ->
              Join(Join(R, <<"KaPianHuiZong">>), topic \o <<"HuiZong", ".md">>)
         [] c.phase = "copy" ->
              Join(R, basename(run[r].activeFile) \o <<".md">>)

\* C8: the calls of a run come in the order root folder, summary folder,
\* the entries in the document's order (title folder, Overview.md, Reading
\* Cards folder, the cards in the topics' order), and the copy last; each
\* call is made on the path the order gives it.
C8_WriteOrder ==
    \A r \in Runs :
      /\ \A j \in 1..(Len(log[r]) - 1) :
           Earlier(Place(log[r][j]), Place(log[r][j + 1]))
      /\ \A j \in 1..Len(log[r]) :
           /\ log[r][j].phase = "copy" => j = Len(log[r])
           /\ log[r][j].path = PathOf(r, log[r][j])
      /\ run[r].pc = "done" => log[r][Len(log[r])].phase = "copy"

\* a run over two entries and two topics is complete, every folder of it
\* created by it
C8_FullRunLogged ==
    /\ run["r1"].pc = "done"
    /\ Len(run["r1"].literatures) = 2
    /\ Len(settings.readingCards) = 2
    /\ Cardinality({c \in Calls("r1") : c.op = "createFolder"}) = 6

\* C9: no run fails in createFolderIfNotExists: between the test of a path
\* and the createFolder that follows it no other run creates the path.
C9_NoContention ==
    \A r \in Runs :
      ~(run[r].pc = "failed" /\ run[r].phase \in FolderPhases
        /\ run[r].error = "Folder already exists.")

\* the topics of the cards run r created for entry i, in order
CardTopics(r, i) ==
    LET Is(c) == c.phase = "card" /\ c.i = i /\ c.ok
        calls == SelectSeq(log[r], Is)
    IN [j \in DOMAIN calls |-> files[calls[j].path].cardType]

\* the topics of the summary notes run r created, in order
SummaryTopics(r) ==
    LET Is(c) == c.phase = "summary" /\ c.ok
        calls == SelectSeq(log[r], Is)
    IN [j \in DOMAIN calls |-> files[calls[j].path].cardType]

\* C10: in a complete run, the topics an entry's Overview.md links are the
\* topics of the entry's cards, in order, and are the topics of the
\* summary notes.
C10_OneTopicList ==
    \A r \in Runs :
      run[r].pc = "done" =>
        \A i \in DOMAIN run[r].literatures :
          LET nav == files[Join(Join(run[r].folderName,
                                     run[r].literatures[i].title),
                                <<"Overview", ".md">>)].nav
          IN /\ nav = CardTopics(r, i)
             /\ nav = SummaryTopics(r)
=============================================================================
